---- MODULE Spec2Model ----
(***************************************************************************)
(* Model of the temperature controller sketch src/main.ino.                *)
(*                                                                         *)
(* The sketch is one thread: setup() once, then loop() forever.  The model *)
(* executes it statement by statement.  `stack' is the continuation: the   *)
(* calls and primitive statements still to run, innermost first.  Each     *)
(* function of the sketch is an action that is enabled when the function   *)
(* is on top of `stack' and replaces it by the statements of its body.     *)
(* stack = <<>> is the point between setup()/loop() and the next loop().   *)
(***************************************************************************)
EXTENDS Integers, Sequences, FiniteSets, TLC

\* ---------------------------------------------------------------- constants
RED_LED_PIN == 6
GREEN_LED_PIN == 5
BLUE_LED_PIN == 4
YELLOW_LED_PIN == 7

POTENTIOMETER_MIN_VALUE == 0
POTENTIOMETER_MAX_VALUE == 1023
MIN_TARGET_TEMPERATURE == 20
MAX_TARGET_TEMPERATURE == 30
TEMPERATURE_OFFSET == 1

\* value EEPROM.read returns for a cell that was never written
EEPROM_ERASED == 255

\* ------------------------------------------------------------------- bounds
MinTemp == 18
MaxTemp == 32

Temperatures == MinTemp..MaxTemp
Humidities == {35, 60}
\* raw analog readings offered to analogRead (a sample of 0..1023)
RawInputs == {0, 102, 103, 1022, 1023}
\* results of DHT11::readTemperatureHumidity: 0 = success, else an error code
SensorResults == {0, 253, 254}
\* bytes a previous program may have left in the EEPROM cell
EepromBytes == {0, 1, 2, 255}

LedPins == {RED_LED_PIN, GREEN_LED_PIN, BLUE_LED_PIN, YELLOW_LED_PIN}
RgbPins == {RED_LED_PIN, GREEN_LED_PIN, BLUE_LED_PIN}

VARIABLES
    pins,            \* level of each LED output pin: "LOW" or "HIGH"
    isYellowLEDOn,   \* the global power flag
    eeprom,          \* byte at EEPROM_YELLOW_LED_STATE_ADDR
    eepromWritten,   \* has the byte ever been written
    elapsed,         \* temperatureReadTimer: interval elapsed since last reset
    fell,            \* buttonDebouncer: falling edge seen by the last update()
    sensorStatus,    \* what the DHT11 answers to a read right now
    stack,           \* continuation of the running setup()/loop()
    phase,           \* "setup" until setup() has returned, then "loop"
    serial,          \* lines printed since the running setup()/loop() began
    sawFell,         \* this iteration: checkButtonPress saw fell()
    sawReady,        \* this iteration: isReady() returned true
    didRead,         \* this iteration: the sensor was read
    lastResult,      \* this iteration: result of the sensor read
    pinsBeforeCycle, \* this iteration: pins when the sensor read began
    lastTemp,        \* this iteration: temperature given to the LED control
    lastTarget,      \* this iteration: target given to the LED control
    didReset,        \* this iteration: temperatureReadTimer.reset() ran
    writes,          \* this iteration: number of EEPROM.write calls
    toggleHist,      \* <<flag, byte>> before each of the last two toggles
    dueSinceOn,      \* since the flag became true: an elapsed trigger was
                     \* handled while the sensor answered 0
    flips,           \* this iteration: number of flips of isYellowLEDOn
    flagAtDecision,  \* this iteration: the flag readTemperaturePeriodically
                     \* tested after isReady() returned true
    flagAtStart,     \* isYellowLEDOn when this iteration began
    byteAtStart,     \* eeprom when this iteration began
    flagBeforeReset, \* isYellowLEDOn when the last reset struck
    resetPoint,      \* "none", or where the last reset struck: "idle"
                     \* (between iterations) or "busy" (inside one)
    potRaw,          \* dial position: the value analogRead would return
    potTarget,       \* target temperature mapped from potRaw
    potPrev          \* target temperature mapped from potRaw - 1

env == <<elapsed, fell, sensorStatus>>
iter == <<sawFell, sawReady, didRead, lastResult, pinsBeforeCycle, lastTemp,
          lastTarget, didReset, writes>>
iter2 == <<flips, flagAtDecision, flagAtStart, byteAtStart>>
boot == <<flagBeforeReset, resetPoint>>
pot == <<potRaw, potTarget, potPrev>>
sketch == <<pins, isYellowLEDOn, eeprom, eepromWritten, env, stack, phase,
            serial, iter, toggleHist, dueSinceOn, iter2, boot>>
vars == <<sketch, pot>>

\* ----------------------------------------------------------------- helpers
Op(n, x, y, z, t) == [op |-> n, a |-> x, b |-> y, c |-> z, s |-> t]
Call(n) == Op(n, 0, 0, 0, "")
Write(pin, level) == Op("digitalWrite", pin, 0, 0, level)
Println(line) == Op("println", 0, 0, 0, line)

At(n) == stack # <<>> /\ Head(stack).op = n
Top == Head(stack)
Rest == Tail(stack)

AllLow == [p \in LedPins |-> "LOW"]

\* C integer division truncates toward zero
TruncDiv(x, y) ==
    IF (x >= 0) = (y > 0) THEN (IF x >= 0 THEN x ELSE -x) \div (IF y > 0 THEN y ELSE -y)
    ELSE -((IF x >= 0 THEN x ELSE -x) \div (IF y > 0 THEN y ELSE -y))

\* Arduino map(): (x - in_min) * (out_max - out_min) / (in_max - in_min) + out_min
map(x, in_min, in_max, out_min, out_max) ==
    TruncDiv((x - in_min) * (out_max - out_min), in_max - in_min) + out_min

\* mutant: the two ends of the output range are exchanged
getTargetTemperatureFromPotentiometer_Swapped(potentiometerValue) ==
    map(potentiometerValue, POTENTIOMETER_MIN_VALUE, POTENTIOMETER_MAX_VALUE,
        MAX_TARGET_TEMPERATURE, MIN_TARGET_TEMPERATURE)

getTargetTemperatureFromPotentiometer(potentiometerValue) ==
    map(potentiometerValue, POTENTIOMETER_MIN_VALUE, POTENTIOMETER_MAX_VALUE,
        MIN_TARGET_TEMPERATURE, MAX_TARGET_TEMPERATURE)

\* mutant: the band is exclusive, its two ends select Heating / Cooling
IndicatorPin_ExclusiveBand(temperature, targetTemperature) ==
    IF temperature <= targetTemperature - TEMPERATURE_OFFSET THEN RED_LED_PIN
    ELSE IF temperature >= targetTemperature + TEMPERATURE_OFFSET THEN BLUE_LED_PIN
    ELSE GREEN_LED_PIN

\* the pin the if-chain of controlLEDsBasedOnTemperature sets HIGH
IndicatorPin(temperature, targetTemperature) ==
    IF temperature < targetTemperature - TEMPERATURE_OFFSET THEN RED_LED_PIN
    ELSE IF temperature > targetTemperature + TEMPERATURE_OFFSET THEN BLUE_LED_PIN
    ELSE GREEN_LED_PIN

\* -------------------------------------------------------------------- Init
Init ==
    /\ pins = AllLow
    /\ isYellowLEDOn = FALSE
    /\ eepromWritten \in BOOLEAN
    /\ eeprom \in (IF eepromWritten THEN EepromBytes ELSE {EEPROM_ERASED})
    /\ elapsed = FALSE
    /\ fell = FALSE
    /\ sensorStatus \in SensorResults
    /\ stack = <<Call("setup")>>
    /\ phase = "setup"
    /\ serial = <<>>
    /\ sawFell = FALSE
    /\ sawReady = FALSE
    /\ didRead = FALSE
    /\ lastResult = 0
    /\ pinsBeforeCycle = AllLow
    /\ lastTemp = 0
    /\ lastTarget = 0
    /\ didReset = FALSE
    /\ writes = 0
    /\ toggleHist = <<>>
    /\ dueSinceOn = FALSE
    /\ flips = 0
    /\ flagAtDecision = FALSE
    /\ flagAtStart = FALSE
    /\ byteAtStart = eeprom
    /\ flagBeforeReset = FALSE
    /\ resetPoint = "none"
    /\ potRaw = POTENTIOMETER_MIN_VALUE
    /\ potTarget = getTargetTemperatureFromPotentiometer(potRaw)
    /\ potPrev = potTarget

\* ------------------------------------------------------------- the sketch
\* setup(): Serial.begin, setupPins, setupButton, load, println
setup ==
    /\ At("setup")
    /\ stack' = <<Call("setupPins"), Call("setupButton"),
                  Call("loadYellowLEDStateFromEEPROM"),
                  Println("Setup complete.")>> \o Rest
    /\ UNCHANGED <<pot, boot, iter2>>
    /\ UNCHANGED <<pins, isYellowLEDOn, eeprom, eepromWritten, env, phase,
                   serial, iter, toggleHist, dueSinceOn>>

\* pinMode(..., OUTPUT) x4 and pinMode(BUTTON_PIN, INPUT_PULLUP): an output
\* pin keeps the level of its port bit, which is LOW after a reset
setupPins ==
    /\ At("setupPins")
    /\ stack' = Rest
    /\ UNCHANGED <<pot, boot, iter2>>
    /\ UNCHANGED <<pins, isYellowLEDOn, eeprom, eepromWritten, env, phase,
                   serial, iter, toggleHist, dueSinceOn>>

\* attach + interval: no edge has been seen yet
setupButton ==
    /\ At("setupButton")
    /\ fell' = FALSE
    /\ stack' = Rest
    /\ UNCHANGED <<pot, boot, iter2>>
    /\ UNCHANGED <<pins, isYellowLEDOn, eeprom, eepromWritten, elapsed,
                   sensorStatus, phase, serial, iter, toggleHist, dueSinceOn>>

\* mutant: the stored byte is read with the opposite sense
loadYellowLEDStateFromEEPROM_Inverted ==
    /\ At("loadYellowLEDStateFromEEPROM")
    /\ isYellowLEDOn' = (eeprom = 0)
    /\ dueSinceOn' = FALSE
    /\ stack' = <<Call("updateYellowLEDState")>> \o Rest
    /\ UNCHANGED <<pot, boot, iter2>>
    /\ UNCHANGED <<pins, eeprom, eepromWritten, env, phase, serial, iter,
                   toggleHist>>

\* isYellowLEDOn = EEPROM.read(addr): byte to bool is (byte != 0)
loadYellowLEDStateFromEEPROM ==
    /\ At("loadYellowLEDStateFromEEPROM")
    /\ isYellowLEDOn' = (eeprom # 0)
    /\ dueSinceOn' = FALSE
    /\ stack' = <<Call("updateYellowLEDState")>> \o Rest
    /\ UNCHANGED <<pot, boot, iter2>>
    /\ UNCHANGED <<pins, eeprom, eepromWritten, env, phase, serial, iter,
                   toggleHist>>

\* mutant: the trigger is handled before the button
loop_TriggerFirst ==
    /\ stack = <<>>
    /\ phase' = "loop"
    /\ stack' = <<Call("buttonDebouncer.update"),
                  Call("readTemperaturePeriodically"),
                  Call("checkButtonPress")>>
    /\ serial' = <<>>
    /\ sawFell' = FALSE
    /\ sawReady' = FALSE
    /\ didRead' = FALSE
    /\ lastResult' = 0
    /\ pinsBeforeCycle' = pins
    /\ lastTemp' = 0
    /\ lastTarget' = 0
    /\ didReset' = FALSE
    /\ writes' = 0
    /\ flips' = 0
    /\ flagAtDecision' = FALSE
    /\ flagAtStart' = isYellowLEDOn
    /\ byteAtStart' = eeprom
    /\ UNCHANGED <<pot, boot>>
    /\ UNCHANGED <<pins, isYellowLEDOn, eeprom, eepromWritten, env,
                   toggleHist, dueSinceOn>>

\* the runtime calls loop() again whenever setup() or loop() has returned
loop ==
    /\ stack = <<>>
    /\ phase' = "loop"
    /\ stack' = <<Call("buttonDebouncer.update"), Call("checkButtonPress"),
                  Call("readTemperaturePeriodically")>>
    /\ serial' = <<>>
    /\ sawFell' = FALSE
    /\ sawReady' = FALSE
    /\ didRead' = FALSE
    /\ lastResult' = 0
    /\ pinsBeforeCycle' = pins
    /\ lastTemp' = 0
    /\ lastTarget' = 0
    /\ didReset' = FALSE
    /\ writes' = 0
    /\ flips' = 0
    /\ flagAtDecision' = FALSE
    /\ flagAtStart' = isYellowLEDOn
    /\ byteAtStart' = eeprom
    /\ UNCHANGED <<pot, boot>>
    /\ UNCHANGED <<pins, isYellowLEDOn, eeprom, eepromWritten, env,
                   toggleHist, dueSinceOn>>

\* Bounce2 update(): samples the pin; fell() is true for the update that
\* saw the debounced level go LOW
buttonDebouncer_update ==
    /\ At("buttonDebouncer.update")
    /\ \E f \in BOOLEAN : fell' = f
    /\ stack' = Rest
    /\ UNCHANGED <<pot, boot, iter2>>
    /\ UNCHANGED <<pins, isYellowLEDOn, eeprom, eepromWritten, elapsed,
                   sensorStatus, phase, serial, iter, toggleHist, dueSinceOn>>

\* mutant: one edge toggles twice
checkButtonPress_DoubleToggle ==
    /\ At("checkButtonPress")
    /\ sawFell' = fell
    /\ stack' = (IF fell THEN <<Call("toggleYellowLEDState"),
                                Call("toggleYellowLEDState")>>
                 ELSE <<>>) \o Rest
    /\ UNCHANGED <<pot, boot, iter2>>
    /\ UNCHANGED <<pins, isYellowLEDOn, eeprom, eepromWritten, env, phase,
                   serial, sawReady, didRead, lastResult, pinsBeforeCycle,
                   lastTemp, lastTarget, didReset, writes, toggleHist,
                   dueSinceOn>>

\* mutant: the toggle does not wait for an edge
checkButtonPress_LevelTriggered ==
    /\ At("checkButtonPress")
    /\ sawFell' = fell
    /\ stack' = <<Call("toggleYellowLEDState")>> \o Rest
    /\ UNCHANGED <<pot, boot, iter2>>
    /\ UNCHANGED <<pins, isYellowLEDOn, eeprom, eepromWritten, env, phase,
                   serial, sawReady, didRead, lastResult, pinsBeforeCycle,
                   lastTemp, lastTarget, didReset, writes, toggleHist,
                   dueSinceOn>>

checkButtonPress ==
    /\ At("checkButtonPress")
    /\ sawFell' = fell
    /\ stack' = (IF fell THEN <<Call("toggleYellowLEDState")>> ELSE <<>>) \o Rest
    /\ UNCHANGED <<pot, boot, iter2>>
    /\ UNCHANGED <<pins, isYellowLEDOn, eeprom, eepromWritten, env, phase,
                   serial, sawReady, didRead, lastResult, pinsBeforeCycle,
                   lastTemp, lastTarget, didReset, writes, toggleHist,
                   dueSinceOn>>

\* mutant: the new state is not persisted
toggleYellowLEDState_NoWrite ==
    /\ At("toggleYellowLEDState")
    /\ isYellowLEDOn' = ~isYellowLEDOn
    /\ dueSinceOn' = FALSE
    /\ flips' = flips + 1
    /\ UNCHANGED <<flagAtDecision, flagAtStart, byteAtStart>>
    /\ toggleHist' = (IF Len(toggleHist) < 2 THEN toggleHist
                      ELSE Tail(toggleHist)) \o <<<<isYellowLEDOn, eeprom>>>>
    /\ stack' = <<Call("updateYellowLEDState")>> \o Rest
    /\ UNCHANGED <<pot, boot>>
    /\ UNCHANGED <<pins, eeprom, eepromWritten, env, phase, serial, iter>>

\* isYellowLEDOn = !isYellowLEDOn; then EEPROM.write; then update
toggleYellowLEDState ==
    /\ At("toggleYellowLEDState")
    /\ isYellowLEDOn' = ~isYellowLEDOn
    /\ dueSinceOn' = FALSE
    /\ flips' = flips + 1
    /\ UNCHANGED <<flagAtDecision, flagAtStart, byteAtStart>>
    /\ toggleHist' = (IF Len(toggleHist) < 2 THEN toggleHist
                      ELSE Tail(toggleHist)) \o <<<<isYellowLEDOn, eeprom>>>>
    /\ stack' = <<Call("EEPROM.write"), Call("updateYellowLEDState")>> \o Rest
    /\ UNCHANGED <<pot, boot>>
    /\ UNCHANGED <<pins, eeprom, eepromWritten, env, phase, serial, iter>>

\* mutant: the byte written is the old state, not the new one
EEPROM_write_OldState ==
    /\ At("EEPROM.write")
    /\ eeprom' = (IF isYellowLEDOn THEN 0 ELSE 1)
    /\ eepromWritten' = TRUE
    /\ writes' = writes + 1
    /\ stack' = Rest
    /\ UNCHANGED <<pot, boot, iter2>>
    /\ UNCHANGED <<pins, isYellowLEDOn, env, phase, serial, sawFell, sawReady,
                   didRead, lastResult, pinsBeforeCycle, lastTemp, lastTarget,
                   didReset, toggleHist, dueSinceOn>>

\* EEPROM.write(EEPROM_YELLOW_LED_STATE_ADDR, isYellowLEDOn): bool to byte
EEPROM_write ==
    /\ At("EEPROM.write")
    /\ eeprom' = (IF isYellowLEDOn THEN 1 ELSE 0)
    /\ eepromWritten' = TRUE
    /\ writes' = writes + 1
    /\ stack' = Rest
    /\ UNCHANGED <<pot, boot, iter2>>
    /\ UNCHANGED <<pins, isYellowLEDOn, env, phase, serial, sawFell, sawReady,
                   didRead, lastResult, pinsBeforeCycle, lastTemp, lastTarget,
                   didReset, toggleHist, dueSinceOn>>

updateYellowLEDState ==
    /\ At("updateYellowLEDState")
    /\ stack' = (IF isYellowLEDOn THEN <<Call("turnOnYellowLED")>>
                 ELSE <<Call("turnOffYellowLED")>>) \o Rest
    /\ UNCHANGED <<pot, boot, iter2>>
    /\ UNCHANGED <<pins, isYellowLEDOn, eeprom, eepromWritten, env, phase,
                   serial, iter, toggleHist, dueSinceOn>>

\* mutant: the yellow LED is set before the clear, which turns it off again
turnOnYellowLED_SetThenClear ==
    /\ At("turnOnYellowLED")
    /\ stack' = <<Write(YELLOW_LED_PIN, "HIGH"), Call("turnOffAllLEDs"),
                  Println("Yellow LED is ON.")>> \o Rest
    /\ UNCHANGED <<pot, boot, iter2>>
    /\ UNCHANGED <<pins, isYellowLEDOn, eeprom, eepromWritten, env, phase,
                   serial, iter, toggleHist, dueSinceOn>>

\* mutant: the other LEDs are left as they are
turnOnYellowLED_NoClear ==
    /\ At("turnOnYellowLED")
    /\ stack' = <<Write(YELLOW_LED_PIN, "HIGH"),
                  Println("Yellow LED is ON.")>> \o Rest
    /\ UNCHANGED <<pot, boot, iter2>>
    /\ UNCHANGED <<pins, isYellowLEDOn, eeprom, eepromWritten, env, phase,
                   serial, iter, toggleHist, dueSinceOn>>

turnOnYellowLED ==
    /\ At("turnOnYellowLED")
    /\ stack' = <<Call("turnOffAllLEDs"), Write(YELLOW_LED_PIN, "HIGH"),
                  Println("Yellow LED is ON.")>> \o Rest
    /\ UNCHANGED <<pot, boot, iter2>>
    /\ UNCHANGED <<pins, isYellowLEDOn, eeprom, eepromWritten, env, phase,
                   serial, iter, toggleHist, dueSinceOn>>

\* mutant: the state change is logged but the pin is not written
turnOffYellowLED_NoWrite ==
    /\ At("turnOffYellowLED")
    /\ stack' = <<Println("Yellow LED is OFF.")>> \o Rest
    /\ UNCHANGED <<pot, boot, iter2>>
    /\ UNCHANGED <<pins, isYellowLEDOn, eeprom, eepromWritten, env, phase,
                   serial, iter, toggleHist, dueSinceOn>>

turnOffYellowLED ==
    /\ At("turnOffYellowLED")
    /\ stack' = <<Write(YELLOW_LED_PIN, "LOW"),
                  Println("Yellow LED is OFF.")>> \o Rest
    /\ UNCHANGED <<pot, boot, iter2>>
    /\ UNCHANGED <<pins, isYellowLEDOn, eeprom, eepromWritten, env, phase,
                   serial, iter, toggleHist, dueSinceOn>>

turnOffAllLEDs ==
    /\ At("turnOffAllLEDs")
    /\ stack' = <<Write(RED_LED_PIN, "LOW"), Write(GREEN_LED_PIN, "LOW"),
                  Write(BLUE_LED_PIN, "LOW"), Write(YELLOW_LED_PIN, "LOW")>>
                \o Rest
    /\ UNCHANGED <<pot, boot, iter2>>
    /\ UNCHANGED <<pins, isYellowLEDOn, eeprom, eepromWritten, env, phase,
                   serial, iter, toggleHist, dueSinceOn>>

\* mutant: the timer is reset only on the path that reads the sensor
readTemperaturePeriodically_ResetAfterRead ==
    /\ At("readTemperaturePeriodically")
    /\ sawReady' = elapsed
    /\ dueSinceOn' = (dueSinceOn
                      \/ (elapsed /\ isYellowLEDOn /\ sensorStatus = 0))
    /\ stack' = (IF elapsed /\ ~isYellowLEDOn
                 THEN <<Call("readAndProcessTemperatureAndHumidity"),
                        Call("temperatureReadTimer.reset")>>
                 ELSE <<>>) \o Rest
    /\ flagAtDecision' = (elapsed /\ isYellowLEDOn)
    /\ UNCHANGED <<pot, boot, flips, flagAtStart, byteAtStart>>
    /\ UNCHANGED <<pins, isYellowLEDOn, eeprom, eepromWritten, env, phase,
                   serial, sawFell, didRead, lastResult, pinsBeforeCycle,
                   lastTemp, lastTarget, didReset, writes, toggleHist>>

\* mutant: the sensor is read while the flag is on
readTemperaturePeriodically_ReadWhenOn ==
    /\ At("readTemperaturePeriodically")
    /\ sawReady' = elapsed
    /\ dueSinceOn' = (dueSinceOn
                      \/ (elapsed /\ isYellowLEDOn /\ sensorStatus = 0))
    /\ stack' = (IF elapsed
                 THEN (IF isYellowLEDOn
                       THEN <<Call("readAndProcessTemperatureAndHumidity")>>
                       ELSE <<>>) \o <<Call("temperatureReadTimer.reset")>>
                 ELSE <<>>) \o Rest
    /\ flagAtDecision' = (elapsed /\ isYellowLEDOn)
    /\ UNCHANGED <<pot, boot, flips, flagAtStart, byteAtStart>>
    /\ UNCHANGED <<pins, isYellowLEDOn, eeprom, eepromWritten, env, phase,
                   serial, sawFell, didRead, lastResult, pinsBeforeCycle,
                   lastTemp, lastTarget, didReset, writes, toggleHist>>

\* if (timer.isReady()) { if (!isYellowLEDOn) read...(); timer.reset(); }
readTemperaturePeriodically ==
    /\ At("readTemperaturePeriodically")
    /\ sawReady' = elapsed
    /\ dueSinceOn' = (dueSinceOn
                      \/ (elapsed /\ isYellowLEDOn /\ sensorStatus = 0))
    /\ stack' = (IF elapsed
                 THEN (IF ~isYellowLEDOn
                       THEN <<Call("readAndProcessTemperatureAndHumidity")>>
                       ELSE <<>>) \o <<Call("temperatureReadTimer.reset")>>
                 ELSE <<>>) \o Rest
    /\ flagAtDecision' = (elapsed /\ isYellowLEDOn)
    /\ UNCHANGED <<pot, boot, flips, flagAtStart, byteAtStart>>
    /\ UNCHANGED <<pins, isYellowLEDOn, eeprom, eepromWritten, env, phase,
                   serial, sawFell, didRead, lastResult, pinsBeforeCycle,
                   lastTemp, lastTarget, didReset, writes, toggleHist>>

temperatureReadTimer_reset ==
    /\ At("temperatureReadTimer.reset")
    /\ elapsed' = FALSE
    /\ didReset' = TRUE
    /\ stack' = Rest
    /\ UNCHANGED <<pot, boot, iter2>>
    /\ UNCHANGED <<pins, isYellowLEDOn, eeprom, eepromWritten, fell,
                   sensorStatus, phase, serial, sawFell, sawReady, didRead,
                   lastResult, pinsBeforeCycle, lastTemp, lastTarget, writes,
                   toggleHist, dueSinceOn>>

\* result = sensor.readTemperatureHumidity(temperature, humidity)
readAndProcessTemperatureAndHumidity ==
    /\ At("readAndProcessTemperatureAndHumidity")
    /\ didRead' = TRUE
    /\ lastResult' = sensorStatus
    /\ pinsBeforeCycle' = pins
    /\ \E temperature \in Temperatures, humidity \in Humidities :
         stack' = (IF sensorStatus = 0
                   THEN <<Op("processTemperatureAndHumidity",
                             temperature, humidity, 0, "")>>
                   ELSE <<Op("handleTemperatureSensorError",
                             sensorStatus, 0, 0, "")>>) \o Rest
    /\ UNCHANGED <<pot, boot, iter2>>
    /\ UNCHANGED <<pins, isYellowLEDOn, eeprom, eepromWritten, env, phase,
                   serial, sawFell, sawReady, lastTemp, lastTarget, didReset,
                   writes, toggleHist, dueSinceOn>>

\* targetTemperature = getTarget...(); display...(); controlLEDs...()
processTemperatureAndHumidity ==
    /\ At("processTemperatureAndHumidity")
    /\ \E potentiometerValue \in RawInputs :
         LET targetTemperature ==
                 getTargetTemperatureFromPotentiometer(potentiometerValue)
         IN stack' = <<Op("displaySensorReadings", Top.a, Top.b,
                          targetTemperature, ""),
                       Op("controlLEDsBasedOnTemperature", Top.a,
                          targetTemperature, 0, "")>> \o Rest
    /\ UNCHANGED <<pot, boot, iter2>>
    /\ UNCHANGED <<pins, isYellowLEDOn, eeprom, eepromWritten, env, phase,
                   serial, iter, toggleHist, dueSinceOn>>

\* three values and their labels, ended by one println: one line
displaySensorReadings ==
    /\ At("displaySensorReadings")
    /\ serial' = Append(serial, "Temperature: t Humidity: h Target Temperature: g")
    /\ stack' = Rest
    /\ UNCHANGED <<pot, boot, iter2>>
    /\ UNCHANGED <<pins, isYellowLEDOn, eeprom, eepromWritten, env, phase,
                   iter, toggleHist, dueSinceOn>>

\* mutant: the selected LED is set without clearing the others first
controlLEDsBasedOnTemperature_NoClear ==
    /\ At("controlLEDsBasedOnTemperature")
    /\ lastTemp' = Top.a
    /\ lastTarget' = Top.b
    /\ stack' = <<Write(IndicatorPin(Top.a, Top.b), "HIGH")>> \o Rest
    /\ UNCHANGED <<pot, boot, iter2>>
    /\ UNCHANGED <<pins, isYellowLEDOn, eeprom, eepromWritten, env, phase,
                   serial, sawFell, sawReady, didRead, lastResult,
                   pinsBeforeCycle, didReset, writes, toggleHist, dueSinceOn>>

controlLEDsBasedOnTemperature ==
    /\ At("controlLEDsBasedOnTemperature")
    /\ lastTemp' = Top.a
    /\ lastTarget' = Top.b
    /\ stack' = <<Call("turnOffAllLEDs"),
                  Write(IndicatorPin(Top.a, Top.b), "HIGH")>> \o Rest
    /\ UNCHANGED <<pot, boot, iter2>>
    /\ UNCHANGED <<pins, isYellowLEDOn, eeprom, eepromWritten, env, phase,
                   serial, sawFell, sawReady, didRead, lastResult,
                   pinsBeforeCycle, didReset, writes, toggleHist, dueSinceOn>>

\* mutant: a failed read also forces the indicators off
handleTemperatureSensorError_ClearsLEDs ==
    /\ At("handleTemperatureSensorError")
    /\ serial' = Append(serial, "DHT11 Error: reason")
    /\ stack' = <<Call("turnOffAllLEDs")>> \o Rest
    /\ UNCHANGED <<pot, boot, iter2>>
    /\ UNCHANGED <<pins, isYellowLEDOn, eeprom, eepromWritten, env, phase,
                   iter, toggleHist, dueSinceOn>>

\* Serial.print("DHT11 Error: "); Serial.println(getErrorString(code))
handleTemperatureSensorError ==
    /\ At("handleTemperatureSensorError")
    /\ serial' = Append(serial, "DHT11 Error: reason")
    /\ stack' = Rest
    /\ UNCHANGED <<pot, boot, iter2>>
    /\ UNCHANGED <<pins, isYellowLEDOn, eeprom, eepromWritten, env, phase,
                   iter, toggleHist, dueSinceOn>>

digitalWrite ==
    /\ At("digitalWrite")
    /\ pins' = [pins EXCEPT ![Top.a] = Top.s]
    /\ stack' = Rest
    /\ UNCHANGED <<pot, boot, iter2>>
    /\ UNCHANGED <<isYellowLEDOn, eeprom, eepromWritten, env, phase, serial,
                   iter, toggleHist, dueSinceOn>>

Serial_println ==
    /\ At("println")
    /\ serial' = Append(serial, Top.s)
    /\ stack' = Rest
    /\ UNCHANGED <<pot, boot, iter2>>
    /\ UNCHANGED <<pins, isYellowLEDOn, eeprom, eepromWritten, env, phase,
                   iter, toggleHist, dueSinceOn>>

\* ------------------------------------------------------------- environment
\* TEMPERATURE_READ_INTERVAL_MS have passed since the timer was last reset
TimerElapses ==
    /\ ~elapsed
    /\ elapsed' = TRUE
    /\ UNCHANGED <<pot, boot, iter2>>
    /\ UNCHANGED <<pins, isYellowLEDOn, eeprom, eepromWritten, fell,
                   sensorStatus, stack, phase, serial, iter, toggleHist,
                   dueSinceOn>>

\* the sensor starts or stops answering; seen by the sketch only at a read
SensorChanges ==
    /\ stack = <<>>
    /\ \E r \in SensorResults \ {sensorStatus} : sensorStatus' = r
    /\ UNCHANGED <<pot, boot, iter2>>
    /\ UNCHANGED <<pins, isYellowLEDOn, eeprom, eepromWritten, elapsed, fell,
                   stack, phase, serial, iter, toggleHist, dueSinceOn>>

\* power cycle or reset button: RAM and pins are reinitialised, the EEPROM
\* byte is kept, and setup() runs again
Reset ==
    /\ pins' = AllLow
    /\ isYellowLEDOn' = FALSE
    /\ elapsed' = FALSE
    /\ fell' = FALSE
    /\ stack' = <<Call("setup")>>
    /\ phase' = "setup"
    /\ serial' = <<>>
    /\ sawFell' = FALSE
    /\ sawReady' = FALSE
    /\ didRead' = FALSE
    /\ lastResult' = 0
    /\ pinsBeforeCycle' = AllLow
    /\ lastTemp' = 0
    /\ lastTarget' = 0
    /\ didReset' = FALSE
    /\ writes' = 0
    /\ toggleHist' = <<>>
    /\ dueSinceOn' = FALSE
    /\ flips' = 0
    /\ flagAtDecision' = FALSE
    /\ flagAtStart' = FALSE
    /\ byteAtStart' = eeprom
    /\ flagBeforeReset' = isYellowLEDOn
    /\ resetPoint' = (IF stack = <<>> THEN "idle" ELSE "busy")
    /\ UNCHANGED <<pot, eeprom, eepromWritten, sensorStatus>>

Next ==
    \/ setup
    \/ setupPins
    \/ setupButton
    \/ loadYellowLEDStateFromEEPROM
    \/ loop
    \/ buttonDebouncer_update
    \/ checkButtonPress
    \/ toggleYellowLEDState
    \/ EEPROM_write
    \/ updateYellowLEDState
    \/ turnOnYellowLED
    \/ turnOffYellowLED
    \/ turnOffAllLEDs
    \/ readTemperaturePeriodically
    \/ temperatureReadTimer_reset
    \/ readAndProcessTemperatureAndHumidity
    \/ processTemperatureAndHumidity
    \/ displaySensorReadings
    \/ controlLEDsBasedOnTemperature
    \/ handleTemperatureSensorError
    \/ digitalWrite
    \/ Serial_println
    \/ TimerElapses
    \/ SensorChanges
    \/ Reset

\* the dial is turned one step up and the target is mapped again
TurnPotentiometer ==
    /\ potRaw < POTENTIOMETER_MAX_VALUE
    /\ potRaw' = potRaw + 1
    /\ potPrev' = potTarget
    /\ potTarget' = getTargetTemperatureFromPotentiometer(potRaw + 1)
    /\ UNCHANGED sketch

NextMap == TurnPotentiometer

SpecMap == Init /\ [][NextMap]_vars

Spec == Init /\ [][Next]_vars

\* ------------------------------------------------------------------ typing
TypeOK ==
    /\ pins \in [LedPins -> {"LOW", "HIGH"}]
    /\ isYellowLEDOn \in BOOLEAN
    /\ eeprom \in 0..255
    /\ writes \in 0..1
    /\ Len(toggleHist) <= 2

\* ------------------------------------------------------------- properties
\* setup() or a loop() iteration has just returned
Idle == stack = <<>>
High(p) == pins[p] = "HIGH"
Asserted == {p \in RgbPins : High(p)}
Count(line) == Cardinality({i \in 1..Len(serial) : serial[i] = line})
Diagnostics == Count("DHT11 Error: reason")
Readouts == Count("Temperature: t Humidity: h Target Temperature: g")

\* C1: a sensor read happens in an iteration only if, after the button
\* handling of that iteration, the power flag is on and the trigger elapsed.
\* (The flag cannot change between the button handling and the read.)
C1_ReadOnlyWhenOn == didRead => (isYellowLEDOn /\ sawReady)

\* C2: an iteration that ends with the power flag on and that saw the trigger
\* elapsed has read the sensor and, on success, driven one indicator.
C2_OnAndElapsedReads ==
    (Idle /\ phase = "loop" /\ isYellowLEDOn /\ sawReady)
        => (didRead /\ (lastResult = 0 => Cardinality(Asserted) = 1))

\* C3: after setup and after every iteration the flag is on exactly when the
\* byte is nonzero; inside an iteration they differ only right after the flip
\* of a toggle, when the EEPROM write is the next statement.
C3_FlagMatchesByte ==
    /\ Idle => (isYellowLEDOn <=> eeprom # 0)
    /\ (phase = "loop" /\ (isYellowLEDOn # (eeprom # 0))) => At("EEPROM.write")
C3_Witness ==
    /\ Idle /\ phase = "loop" /\ sawFell /\ writes = 1
    /\ isYellowLEDOn /\ eeprom = 1

\* C4: when setup or an iteration ends with the power flag off, the Heating,
\* Cooling and Optimal outputs are all LOW.
C4_OffMeansIndicatorsOff ==
    (Idle /\ ~isYellowLEDOn) => (\A p \in RgbPins : ~High(p))

C6_AtMostOneIndicator ==
    /\ Cardinality(Asserted) <= 1
    /\ (At("digitalWrite") /\ Top.s = "HIGH" /\ Top.a \in RgbPins)
           => pins = AllLow
C6_Witness ==
    /\ At("digitalWrite") /\ Top.s = "HIGH" /\ Top.a = BLUE_LED_PIN
    /\ pinsBeforeCycle[RED_LED_PIN] = "HIGH"

\* C7: after a successful sample of temperature t against target g exactly
\* one indicator is HIGH: Heating iff t < g - 1, Cooling iff t > g + 1,
\* Optimal otherwise (t = g - 1 and t = g + 1 included).
C7_SelectionPartition ==
    (Idle /\ didRead /\ lastResult = 0) =>
        /\ Cardinality(Asserted) = 1
        /\ High(RED_LED_PIN) <=> lastTemp < lastTarget - 1
        /\ High(BLUE_LED_PIN) <=> lastTemp > lastTarget + 1
        /\ High(GREEN_LED_PIN) <=>
               (lastTarget - 1 <= lastTemp /\ lastTemp <= lastTarget + 1)
C7_Witness ==
    /\ Idle /\ didRead /\ lastResult = 0
    /\ lastTemp = lastTarget - 1 /\ High(GREEN_LED_PIN)

\* C8: an iteration whose sensor read failed printed exactly one diagnostic
\* line and no readout line, and left all four outputs as they were when the
\* read began.
C8_FailedReadKeepsOutputs ==
    (Idle /\ didRead /\ lastResult # 0) =>
        /\ Diagnostics = 1
        /\ Readouts = 0
        /\ pins = pinsBeforeCycle
C8_Witness ==
    /\ Idle /\ didRead /\ lastResult # 0
    /\ Diagnostics = 1 /\ High(RED_LED_PIN)

\* C9: when setup ends and the byte was never written, the power flag is off.
C9_UnwrittenLoadsOff ==
    (Idle /\ phase = "setup" /\ ~eepromWritten) => ~isYellowLEDOn

\* C10 as claimed: after two toggles the flag and the byte both equal what
\* they were before the first of the two.
C10_TwoTogglesRestoreByte ==
    (Idle /\ Len(toggleHist) = 2) =>
        /\ isYellowLEDOn = toggleHist[1][1]
        /\ eeprom = toggleHist[1][2]
\* C10 amended: after two toggles the flag equals what it was before the
\* first of the two, and the byte is the encoding of that flag, 1 for on and
\* 0 for off (so nonzero exactly when the original byte was nonzero).
C10_TwoTogglesRestoreState ==
    (Idle /\ Len(toggleHist) = 2) =>
        /\ isYellowLEDOn = toggleHist[1][1]
        /\ eeprom = (IF toggleHist[1][1] THEN 1 ELSE 0)
        /\ (eeprom # 0) <=> (toggleHist[1][2] # 0)
C10_Witness ==
    /\ Idle /\ Len(toggleHist) = 2
    /\ toggleHist[1][2] = EEPROM_ERASED /\ eeprom = 1 /\ isYellowLEDOn

\* C11: when setup has run again after a reset that struck between two
\* iterations (or between setup and the first one), the loaded power flag
\* equals the flag held just before the reset.
C11_StateSurvivesReset ==
    (Idle /\ phase = "setup" /\ resetPoint = "idle")
        => isYellowLEDOn = flagBeforeReset
C11_Witness ==
    /\ Idle /\ phase = "setup" /\ resetPoint = "idle"
    /\ ~flagBeforeReset /\ ~isYellowLEDOn /\ eeprom = 0 /\ eepromWritten
    /\ Len(serial) = 2

\* C12: in an iteration that saw both a falling edge and an elapsed trigger,
\* the flag tested for the sampling decision is the flag after the toggle
\* and not the one before it.
C12_ButtonBeforeTrigger ==
    (Idle /\ phase = "loop" /\ sawFell /\ sawReady) =>
        /\ flagAtDecision = isYellowLEDOn
        /\ flagAtDecision # flagAtStart
C12_Witness ==
    /\ Idle /\ phase = "loop" /\ sawFell /\ sawReady
    /\ flagAtStart /\ ~flagAtDecision /\ didRead

\* C13: an iteration resets the timer exactly when it saw the trigger
\* elapsed, with the flag on or off and whatever the sensor read did.
C13_ResetIffElapsed ==
    (Idle /\ phase = "loop") => (didReset <=> sawReady)
C13_Witness ==
    /\ Idle /\ phase = "loop" /\ sawReady /\ didReset
    /\ isYellowLEDOn /\ ~didRead

\* C14: an iteration that saw a falling edge has flipped the flag exactly
\* once and written the EEPROM exactly once, and the byte is the encoding of
\* the new flag (0 for off, 1 for on).
C14_EdgeTogglesOnce ==
    (Idle /\ phase = "loop" /\ sawFell) =>
        /\ flips = 1
        /\ writes = 1
        /\ isYellowLEDOn = ~flagAtStart
        /\ eeprom = (IF isYellowLEDOn THEN 1 ELSE 0)
C14_Witness ==
    /\ Idle /\ phase = "loop" /\ sawFell /\ flips = 1 /\ writes = 1
    /\ byteAtStart = EEPROM_ERASED /\ ~isYellowLEDOn /\ eeprom = 0

\* C15: in every state of an iteration that saw no falling edge the flag and
\* the byte are what they were when the iteration began and no EEPROM write
\* has happened; an EEPROM write never happens without a flip before it.
C15_NoEdgeNoChange ==
    /\ writes <= flips
    /\ (phase = "loop" /\ ~sawFell) =>
           /\ isYellowLEDOn = flagAtStart
           /\ eeprom = byteAtStart
           /\ writes = 0
           /\ flips = 0
C15_Witness ==
    /\ Idle /\ phase = "loop" /\ ~sawFell /\ sawReady
    /\ didRead /\ lastResult = 0 /\ eeprom = 0

\* C16: when setup or an iteration has returned, the yellow output is HIGH
\* exactly when the power flag is on.
C16_YellowFollowsFlag ==
    Idle => (High(YELLOW_LED_PIN) <=> isYellowLEDOn)
C16_Witness ==
    /\ Idle /\ phase = "loop" /\ sawFell /\ sawReady
    /\ isYellowLEDOn /\ High(YELLOW_LED_PIN)
    /\ pinsBeforeCycle[RED_LED_PIN] = "HIGH"

\* C17: over the raw inputs 0..1023 the mapped target never decreases when
\* the raw input grows by one, is 20 at 0 and 30 at 1023, and lies in 20..30.
C17_TargetMonotone ==
    /\ potPrev <= potTarget
    /\ 20 <= potTarget /\ potTarget <= 30
    /\ potRaw = 0 => potTarget = 20
    /\ potRaw = 1023 => potTarget = 30
C17_Witness ==
    /\ potRaw = 1023 /\ potTarget = 30 /\ potPrev = 29

\* C18: with the power flag on and a failing sensor, every handled trigger
\* elapse has produced one diagnostic line by the time its timer reset is
\* the only statement left of the iteration.  (The sensor status cannot
\* change inside an iteration.)
C18_DiagnosticPerElapse ==
    (stack = <<Call("temperatureReadTimer.reset")>>
        /\ isYellowLEDOn /\ sensorStatus # 0) => Diagnostics = 1

\* C19: in every state, the states between two pin writes included, the
\* yellow output being HIGH implies that red, green and blue are all LOW.
C19_YellowExcludesRgb ==
    High(YELLOW_LED_PIN) => (\A p \in RgbPins : ~High(p))
C19_Witness ==
    /\ At("println") /\ Top.s = "Yellow LED is ON."
    /\ High(YELLOW_LED_PIN) /\ pinsBeforeCycle[RED_LED_PIN] = "HIGH"

C21_CycleKeepsYellow ==
    didRead => pins[YELLOW_LED_PIN] = pinsBeforeCycle[YELLOW_LED_PIN]
C21_Witness ==
    /\ Idle /\ phase = "loop" /\ didRead /\ lastResult = 0
    /\ sawFell /\ flagAtStart
    /\ Cardinality(Asserted) = 1 /\ ~High(YELLOW_LED_PIN)

====
